---------------------------- MODULE Spec2Model ----------------------------
(***************************************************************************)
(* A model of cmk/gui/plugins/openapi/livestatus_helpers/testing.py:       *)
(* MockLiveStatusConnection, the ordered-expectation simulator of a        *)
(* LiveStatus connection, together with the pure helpers it rests on       *)
(* (_compare, evaluate_filter, _unpack_headers, ...).                      *)
(*                                                                         *)
(* Python str values are TLA+ strings; a character is a string of length   *)
(* one.  Python bytes are sequences of integers 0..255.  A Python call that*)
(* can raise is an operator returning a record whose field exc names the   *)
(* exception type ("none" when the call returns normally).                 *)
(***************************************************************************)
EXTENDS Integers, Sequences, FiniteSets, TLC

VARIABLES
    _prepend_site,          \* self._prepend_site
    _expected_queries,      \* self._expected_queries: the expectation queue
    _report_multiple,       \* self._report_multiple
    _expect_status_query,   \* self._expect_status_query: None, True or False
    _last_response,         \* self._last_response: NoneIO or a StringIO [buf, pos]
    _tables,                \* self._tables: the fixture store
    in_scope,               \* the caller is inside the `with` block of the object
    outcome,                \* what the last call did: [op, exc, msg, ret]
    accepted,               \* <<expected text, submitted text>> of the sends accepted since
                            \* __enter__, kept as long as no send has raised
    raised                  \* some socket_send raised since __enter__

vars == <<_prepend_site, _expected_queries, _report_multiple, _expect_status_query,
          _last_response, _tables, in_scope, outcome, accepted, raised>>

\* Optional[bool]: None and the two booleans, as strings
None == "None"
True == "True"
False == "False"
PyBool(b) == IF b THEN True ELSE False

\* Optional[io.StringIO]: None, and the StringIO over a text, read from its start
NoneIO == [io |-> "None"]

\* The StringIO over a text, read to its end
StringIOAtEnd(text) == [io |-> "StringIO", buf |-> text, pos |-> Len(text)]

\* io.StringIO(text)
StringIO(text) == [io |-> "StringIO", buf |-> text, pos |-> 0]

\* An Optional[str] or Optional[list] a function returns: none, or the value
NoneVal == [none |-> TRUE]
Some(v) == [none |-> FALSE, val |-> v]

-----------------------------------------------------------------------------
(* Python str methods, as far as the module uses them.                     *)

NL == "\n"

\* s[i] for a 1-based index i
Char(s, i) == SubSeq(s, i, i)

\* s[n:] for n >= 0 (n characters dropped)
DropStr(s, n) == SubSeq(s, n + 1, Len(s))

\* s[:n] for n >= 0
TakeStr(s, n) == SubSeq(s, 1, IF n < Len(s) THEN n ELSE Len(s))

\* s.startswith(prefix)
StartsWith(s, prefix) == Len(s) >= Len(prefix) /\ SubSeq(s, 1, Len(prefix)) = prefix

\* s.find(sub): the 1-based index of the first occurrence of sub in s, 0 if there is none
Find(s, sub) ==
    LET hits == {i \in 1..(Len(s) - Len(sub) + 1) : SubSeq(s, i, i + Len(sub) - 1) = sub}
    IN  IF hits = {} THEN 0 ELSE CHOOSE i \in hits : \A j \in hits : i <= j

\* sub in s
Contains(s, sub) == Find(s, sub) # 0

\* s.rstrip("\n")
RECURSIVE RStripNL(_)
RStripNL(s) ==
    IF Len(s) > 0 /\ Char(s, Len(s)) = NL THEN RStripNL(SubSeq(s, 1, Len(s) - 1)) ELSE s

\* s.lstrip(" ")
RECURSIVE LStripSp(_)
LStripSp(s) == IF Len(s) > 0 /\ Char(s, 1) = " " THEN LStripSp(DropStr(s, 1)) ELSE s

\* The characters str.split() and str.strip() treat as whitespace (those of the alphabet).
IsSpace(c) == c \in {" ", NL, "\t"}

RECURSIVE LStripWs(_)
LStripWs(s) == IF Len(s) > 0 /\ IsSpace(Char(s, 1)) THEN LStripWs(DropStr(s, 1)) ELSE s

\* s.splitlines(); "\n" is the only line boundary of the alphabet
RECURSIVE SplitLines(_)

\* The lines of a non-empty s whose first "\n" is at i (0: it has none)
SplitLinesAt(s, i) ==
    IF i = 0 THEN <<s>>
    ELSE <<SubSeq(s, 1, i - 1)>> \o SplitLines(DropStr(s, i))

SplitLines(s) == IF s = "" THEN <<>> ELSE SplitLinesAt(s, Find(s, NL))

\* sep.join(parts)
RECURSIVE Join(_, _)
Join(sep, parts) ==
    IF parts = <<>> THEN ""
    ELSE IF Len(parts) = 1 THEN parts[1]
    ELSE parts[1] \o sep \o Join(sep, Tail(parts))

\* s.split(None, maxsplit); maxsplit = -1 means no limit (s.split())
RECURSIVE SplitWs(_, _)
SplitWs(s, maxsplit) ==
    LET t == LStripWs(s)
    IN  IF t = "" THEN <<>>
        ELSE IF maxsplit = 0 THEN <<t>>
        ELSE LET ends == {i \in 1..Len(t) : IsSpace(Char(t, i))}
                 e == IF ends = {} THEN Len(t) + 1
                      ELSE CHOOSE i \in ends : \A j \in ends : i <= j
             IN  <<SubSeq(t, 1, e - 1)>>
                 \o SplitWs(DropStr(t, e - 1), IF maxsplit < 0 THEN maxsplit ELSE maxsplit - 1)

\* The two parts of s around the sep at i (0: s has none)
Split1At(s, sep, i) ==
    IF i = 0 THEN <<s>>
    ELSE <<SubSeq(s, 1, i - 1), DropStr(s, i + Len(sep) - 1)>>

\* s.split(sep, 1) for a non-empty separator
Split1(s, sep) == Split1At(s, sep, Find(s, sep))

\* s.replace(old, new) for a non-empty old: left to right, non-overlapping
RECURSIVE Replace(_, _, _)

\* s with new for the old at i (0: s has none) and for those behind it
ReplaceAt(s, old, new, i) ==
    IF i = 0 THEN s
    ELSE SubSeq(s, 1, i - 1) \o new \o Replace(DropStr(s, i + Len(old) - 1), old, new)

Replace(s, old, new) == ReplaceAt(s, old, new, Find(s, old))

\* x is the last element of the list
IsLast(x, seq) == seq # <<>> /\ seq[Len(seq)] = x

\* x in list
InSeq(x, seq) == \E i \in 1..Len(seq) : seq[i] = x

-----------------------------------------------------------------------------
(* Characters, code points and the UTF-8 codec (str.encode, bytes.decode). *)

\* The printable ASCII characters from " " (32) to "~" (126); "`" (96) cannot be
\* written in a TLA+ string and is left out, so the list is cut in two at it.
AsciiLow == " !\"#$%&'()*+,-./0123456789:;<=>?@ABCDEFGHIJKLMNOPQRSTUVWXYZ[\\]^_"
AsciiHigh == "abcdefghijklmnopqrstuvwxyz{|}~"

\* ord(c) for the characters of the alphabet: ASCII, the newline, the tab and two
\* characters outside ASCII (U+00E4 and U+20AC).
OrdMap ==
    [c \in {Char(AsciiLow, i) : i \in 1..Len(AsciiLow)} |->
        31 + (CHOOSE i \in 1..Len(AsciiLow) : Char(AsciiLow, i) = c)]
    @@ [c \in {Char(AsciiHigh, i) : i \in 1..Len(AsciiHigh)} |->
        96 + (CHOOSE i \in 1..Len(AsciiHigh) : Char(AsciiHigh, i) = c)]
    @@ (NL :> 10) @@ ("\t" :> 9) @@ ("ä" :> 228) @@ ("€" :> 8364)

Ord(c) == OrdMap[c]

\* chr(cp), for the code points of the alphabet
ChrMap ==
    [cp \in {OrdMap[c] : c \in DOMAIN OrdMap} |-> CHOOSE c \in DOMAIN OrdMap : OrdMap[c] = cp]

Chr(cp) == ChrMap[cp]

\* The UTF-8 bytes of one character
EncodeChar(c) ==
    LET cp == Ord(c)
    IN  IF cp < 128 THEN <<cp>>
        ELSE IF cp < 2048 THEN <<192 + (cp \div 64), 128 + (cp % 64)>>
        ELSE <<224 + (cp \div 4096), 128 + ((cp \div 64) % 64), 128 + (cp % 64)>>

\* s.encode('utf-8'): the bytes of the characters, one after the other (the text is
\* halved rather than walked, which keeps the evaluation shallow)
RECURSIVE Encode(_)
Encode(s) ==
    IF s = "" THEN <<>>
    ELSE IF Len(s) = 1 THEN EncodeChar(s)
    ELSE LET mid == Len(s) \div 2
         IN  Encode(SubSeq(s, 1, mid)) \o Encode(SubSeq(s, mid + 1, Len(s)))

IsCont(b) == b >= 128 /\ b < 192

\* The number of bytes of the sequence a lead byte b opens, 0 when b opens none
SeqLen(b) ==
    IF b < 128 THEN 1
    ELSE IF b >= 194 /\ b < 224 THEN 2
    ELSE IF b >= 224 /\ b < 240 THEN 3
    ELSE 0

\* The code point of the sequence of n bytes at data[i]
CodePointAt(data, i, n) ==
    IF n = 1 THEN data[i]
    ELSE IF n = 2 THEN (data[i] - 192) * 64 + (data[i + 1] - 128)
    ELSE (data[i] - 224) * 4096 + (data[i + 1] - 128) * 64 + (data[i + 2] - 128)

\* Every byte that is no continuation byte opens a complete sequence in its
\* shortest form, and every continuation byte belongs to one
WellFormed(data) ==
    /\ \A i \in 1..Len(data) :
          ~IsCont(data[i]) =>
              LET n == SeqLen(data[i])
              IN  /\ n > 0
                  /\ i + n - 1 <= Len(data)
                  /\ \A j \in (i + 1)..(i + n - 1) : IsCont(data[j])
                  /\ (i + n <= Len(data) => ~IsCont(data[i + n]))
                  /\ (n = 3 => CodePointAt(data, i, n) >= 2048)
    /\ (data # <<>> => ~IsCont(data[1]))

\* The characters of the sequences opened in data[lo..hi]
RECURSIVE DecodeRange(_, _, _)
DecodeRange(data, lo, hi) ==
    IF lo > hi THEN ""
    ELSE IF lo = hi
    THEN IF IsCont(data[lo]) THEN "" ELSE Chr(CodePointAt(data, lo, SeqLen(data[lo])))
    ELSE LET mid == (lo + hi) \div 2
         IN  DecodeRange(data, lo, mid) \o DecodeRange(data, mid + 1, hi)

\* data.decode('utf-8'): [exc, val]; a malformed sequence raises UnicodeDecodeError
Decode(data) ==
    IF WellFormed(data) THEN [exc |-> "none", val |-> DecodeRange(data, 1, Len(data))]
    ELSE [exc |-> "UnicodeDecodeError", val |-> ""]

\* the order of Python on str: by code point, a proper prefix first
RECURSIVE StrLess(_, _)
StrLess(a, b) ==
    IF b = "" THEN FALSE
    ELSE IF a = "" THEN TRUE
    ELSE IF Char(a, 1) = Char(b, 1) THEN StrLess(DropStr(a, 1), DropStr(b, 1))
    ELSE Ord(Char(a, 1)) < Ord(Char(b, 1))

\* sorted(keys) for a set of str
RECURSIVE SortedStrs(_)
SortedStrs(S) ==
    IF S = {} THEN <<>>
    ELSE LET m == CHOOSE x \in S : \A y \in S \ {x} : StrLess(x, y)
         IN  <<m>> \o SortedStrs(S \ {m})

-----------------------------------------------------------------------------
(* Python values of table cells, and repr().                               *)
(*   [t |-> "int", i |-> n]       an int                                   *)
(*   [t |-> "str", s |-> text]    a str                                    *)
(*   [t |-> "float", f |-> text]  a float, held as its shortest repr       *)
(*   [t |-> "list", l |-> seq]    a list of values                         *)

IntV(n) == [t |-> "int", i |-> n]
StrV(s) == [t |-> "str", s |-> s]
FloatV(f) == [t |-> "float", f |-> f]
ListV(l) == [t |-> "list", l |-> l]

Digits == "0123456789"

\* repr(n) for an int
RECURSIVE IntRepr(_)
IntRepr(n) ==
    IF n < 0 THEN "-" \o IntRepr(0 - n)
    ELSE IF n < 10 THEN Char(Digits, n + 1)
    ELSE IntRepr(n \div 10) \o Char(Digits, (n % 10) + 1)

\* repr(s) for a str: single quotes, unless s holds a ' and no "; the backslash, the
\* quote in use, newline and tab are escaped; other characters stand for themselves
RECURSIVE EscapeStr(_, _)
EscapeStr(s, quote) ==
    IF s = "" THEN ""
    ELSE IF Len(s) = 1
    THEN IF s = "\\" THEN "\\\\"
         ELSE IF s = quote THEN "\\" \o quote
         ELSE IF s = NL THEN "\\n"
         ELSE IF s = "\t" THEN "\\t"
         ELSE s
    ELSE LET mid == Len(s) \div 2
         IN  EscapeStr(SubSeq(s, 1, mid), quote) \o EscapeStr(SubSeq(s, mid + 1, Len(s)), quote)

StrRepr(s) ==
    LET quote == IF Contains(s, "'") /\ ~Contains(s, "\"") THEN "\"" ELSE "'"
    IN  quote \o EscapeStr(s, quote) \o quote

\* repr(v)
RECURSIVE Repr(_)
Repr(v) ==
    IF v.t = "int" THEN IntRepr(v.i)
    ELSE IF v.t = "str" THEN StrRepr(v.s)
    ELSE IF v.t = "float" THEN v.f
    ELSE "[" \o Join(", ", [k \in 1..Len(v.l) |-> Repr(v.l[k])]) \o "]"

\* repr(response) for a response: a list of rows, each a list of values
ReprResponse(response) ==
    Repr(ListV([k \in 1..Len(response) |-> ListV(response[k])]))

\* f"{text:>width}"
RECURSIVE PadLeft(_, _)
PadLeft(text, width) == IF Len(text) >= width THEN text ELSE PadLeft(" " \o text, width)

\* f"{text:<width}"
RECURSIVE PadRight(_, _)
PadRight(text, width) == IF Len(text) >= width THEN text ELSE PadRight(text \o " ", width)

\* f"{code:<3} {length:>11}\n{data}" with code = 200 and length = len(data)
Framed(data) ==
    LET code == 200
        length == Len(data)
    IN  PadRight(IntRepr(code), 3) \o " " \o PadLeft(IntRepr(length), 11) \o NL \o data

_make_livestatus_response(response) == Framed(ReprResponse(response))

-----------------------------------------------------------------------------
(* The query introspector: _table_of_query, _column_of_query,              *)
(* _unpack_headers.                                                        *)

\* [exc, val]: val is the table name, none when the first line is no "GET " line;
\* lines[0].split(None, 1)[1] raises IndexError when nothing follows "GET "
_table_of_query(query) ==
    LET lines == SplitLines(query)
    IN  IF lines # <<>> /\ StartsWith(lines[1], "GET ")
        THEN LET parts == SplitWs(lines[1], 1)
             IN  IF Len(parts) < 2 THEN [exc |-> "IndexError", val |-> NoneVal]
                 ELSE [exc |-> "none", val |-> Some(parts[2])]
        ELSE [exc |-> "none", val |-> NoneVal]

\* The list of the column names of the first "Columns:" line, none without one
RECURSIVE ColumnsOfLines(_)
ColumnsOfLines(lines) ==
    IF lines = <<>> THEN NoneVal
    ELSE IF StartsWith(lines[1], "Columns:") THEN Some(SplitWs(DropStr(lines[1], 8), -1))
    ELSE ColumnsOfLines(Tail(lines))

_column_of_query(query) == ColumnsOfLines(SplitLines(query))

\* The loop of _unpack_headers over the lines, the dict built so far in unpacked:
\* a line with ":" and without ": " makes `key, value = header.split(": ", 1)` raise
\* ValueError
RECURSIVE UnpackLines(_, _)
UnpackLines(lines, unpacked) ==
    IF lines = <<>> THEN [exc |-> "none", val |-> unpacked]
    ELSE LET header == lines[1]
         IN  IF StartsWith(header, "GET ") THEN UnpackLines(Tail(lines), unpacked)
             ELSE IF ~Contains(header, ":") THEN UnpackLines(Tail(lines), unpacked)
             ELSE IF header = "" THEN UnpackLines(Tail(lines), unpacked)
             ELSE LET kv == Split1(header, ": ")
                  IN  IF Len(kv) # 2 THEN [exc |-> "ValueError", val |-> unpacked]
                      ELSE UnpackLines(Tail(lines), (kv[1] :> LStripSp(kv[2])) @@ unpacked)

\* [exc, val]: val is the dict of the headers, a function from key to value
_unpack_headers(query) == UnpackLines(SplitLines(query), <<>>)

\* header_dict.pop(key, default)
DictPop(dict, key, default) == IF key \in DOMAIN dict THEN dict[key] ELSE default

-----------------------------------------------------------------------------
(* Regular expressions, for the part of Python's re that the patterns of    *)
(* the module reach: literal characters, ".", a backslash-escaped          *)
(* character, the quantifiers "*", "+", "?" with an optional lazy "?", a    *)
(* leading "^" and a final "$".  A parsed pattern is a sequence of items    *)
(* [any, c, q]: any character but the newline, or the character c; q is     *)
(* "1", "*", "+" or "?".  Groups, alternation, classes, counted repetition  *)
(* and anchors inside a pattern are outside the alphabet of the patterns    *)
(* drawn here (RegexParse has no case for them).                            *)

RegexUnsupported == {"(", ")", "|", "^", "$", "{", "}", "["}
RegexQuantifiers == {"*", "+", "?"}

\* sre_parse on the pattern after its leading "^": [exc, val, atEnd]; a quantifier
\* with nothing to repeat, or after a quantifier, and a trailing backslash, raise
\* re.error; an unescaped "$" that ends the pattern sets atEnd
RECURSIVE RegexParse(_, _)
RegexParse(pattern, items) ==
    IF pattern = "" THEN [exc |-> "none", val |-> items, atEnd |-> FALSE]
    ELSE LET c == Char(pattern, 1)
             atom == IF c = "\\" THEN [any |-> FALSE, c |-> Char(pattern, 2)]
                     ELSE IF c = "." THEN [any |-> TRUE, c |-> "."]
                     ELSE [any |-> FALSE, c |-> c]
             n == IF c = "\\" THEN 2 ELSE 1
             next == IF Len(pattern) > n THEN Char(pattern, n + 1) ELSE ""
             hasq == next \in RegexQuantifiers
             lazy == hasq /\ Len(pattern) > n + 1 /\ Char(pattern, n + 2) = "?"
             used == n + (IF hasq THEN 1 ELSE 0) + (IF lazy THEN 1 ELSE 0)
         IN  CASE c \in RegexQuantifiers \/ (c = "\\" /\ Len(pattern) = 1) ->
                    [exc |-> "re.error", val |-> items, atEnd |-> FALSE]
               [] c = "$" /\ Len(pattern) = 1 ->
                    [exc |-> "none", val |-> items, atEnd |-> TRUE]
               [] c \notin RegexQuantifiers /\ c \notin RegexUnsupported
                  /\ ~(c = "\\" /\ Len(pattern) = 1) ->
                    RegexParse(DropStr(pattern, used),
                               Append(items, [any |-> atom.any, c |-> atom.c,
                                              q |-> IF hasq THEN next ELSE "1"]))

RegexFits(item, c) == IF item.any THEN c # NL ELSE c = item.c

\* Whether the items match s from its start; with atEnd the match must end at the
\* end of s or before a newline that ends s
RECURSIVE RegexMatch(_, _, _)
RegexMatch(items, s, atEnd) ==
    IF items = <<>> THEN (atEnd => (s = "" \/ s = NL))
    ELSE LET item == items[1]
             rest == Tail(items)
             first == s # "" /\ RegexFits(item, Char(s, 1))
         IN  CASE item.q = "1" -> first /\ RegexMatch(rest, DropStr(s, 1), atEnd)
               [] item.q = "?" -> \/ RegexMatch(rest, s, atEnd)
                                  \/ first /\ RegexMatch(rest, DropStr(s, 1), atEnd)
               [] item.q = "*" -> \/ RegexMatch(rest, s, atEnd)
                                  \/ first /\ RegexMatch(items, DropStr(s, 1), atEnd)
               [] item.q = "+" -> first /\ RegexMatch(<<[item EXCEPT !.q = "*"]>> \o rest,
                                                      DropStr(s, 1), atEnd)

\* bool(re.match(regex, s)): [exc, val]
ReMatch(regex, s) ==
    LET parsed == RegexParse(IF StartsWith(regex, "^") THEN DropStr(regex, 1) ELSE regex, <<>>)
    IN  IF parsed.exc # "none" THEN [exc |-> parsed.exc, val |-> FALSE]
        ELSE [exc |-> "none", val |-> RegexMatch(parsed.val, s, parsed.atEnd)]

-----------------------------------------------------------------------------
(* The operator table and the filter compiler: OPERATORS, cast_down,       *)
(* match_regexp, make_filter_func.                                         *)

IsDigit(c) == c # "" /\ Contains(Digits, c)

RECURSIVE DigitsValue(_, _)
DigitsValue(s, acc) ==
    IF s = "" THEN acc
    ELSE DigitsValue(DropStr(s, 1), acc * 10 + (Find(Digits, Char(s, 1)) - 1))

RECURSIVE RStripWs(_)
RStripWs(s) ==
    IF Len(s) > 0 /\ IsSpace(Char(s, Len(s))) THEN RStripWs(SubSeq(s, 1, Len(s) - 1)) ELSE s

\* int(s) for a str: [exc, val]; surrounding whitespace and one sign are accepted
ParseInt(s) ==
    LET t == RStripWs(LStripWs(s))
        signed == t # "" /\ Char(t, 1) \in {"+", "-"}
        body == IF signed THEN DropStr(t, 1) ELSE t
    IN  IF body = "" \/ \E i \in 1..Len(body) : ~IsDigit(Char(body, i))
        THEN [exc |-> "ValueError", val |-> 0]
        ELSE [exc |-> "none",
              val |-> IF signed /\ Char(t, 1) = "-" THEN 0 - DigitsValue(body, 0)
                      ELSE DigitsValue(body, 0)]

\* The comparison of two values as Python orders them: "lt", "eq", "gt", or "ne" for
\* values of types that are unequal and have no order.  Two floats are compared
\* only when they are the same number.
RECURSIVE Cmp(_, _)
Cmp(a, b) ==
    CASE a.t # b.t -> "ne"
      [] a.t = "int" /\ b.t = "int" ->
            IF a.i < b.i THEN "lt" ELSE IF a.i = b.i THEN "eq" ELSE "gt"
      [] a.t = "str" /\ b.t = "str" ->
            IF a.s = b.s THEN "eq" ELSE IF StrLess(a.s, b.s) THEN "lt" ELSE "gt"
      [] a.t = "float" /\ b.t = "float" /\ a.f = b.f -> "eq"
      [] a.t = "list" /\ b.t = "list" ->
            LET n == IF Len(a.l) < Len(b.l) THEN Len(a.l) ELSE Len(b.l)
                diff == {i \in 1..n : Cmp(a.l[i], b.l[i]) # "eq"}
            IN  IF diff # {}
                THEN LET i == CHOOSE i \in diff : \A j \in diff : i <= j
                     IN  Cmp(a.l[i], b.l[i])
                ELSE IF Len(a.l) < Len(b.l) THEN "lt"
                ELSE IF Len(a.l) = Len(b.l) THEN "eq" ELSE "gt"

\* t(b) of cast_down, t the type of the row's value a and b the literal of the
\* filter, a str: [exc, val].  A float column is not filtered on here.
CastDown(a, b) ==
    CASE a.t = "int" -> LET n == ParseInt(b)
                        IN  [exc |-> n.exc, val |-> IntV(n.val)]
      [] a.t = "str" -> [exc |-> "none", val |-> StrV(b)]
      [] a.t = "list" -> [exc |-> "none",
                          val |-> ListV([i \in 1..Len(b) |-> StrV(Char(b, i))])]

\* The operators as they are named: ">=" is operator.ge and "<=" is operator.le
ApplyNamedOperator(op, a, b) ==
    LET cast == CastDown(a, b)
        c == Cmp(a, cast.val)
    IN  IF cast.exc # "none" THEN [exc |-> cast.exc, val |-> FALSE]
        ELSE IF op = "=" THEN [exc |-> "none", val |-> c = "eq"]
        ELSE IF c = "ne" THEN [exc |-> "TypeError", val |-> FALSE]
        ELSE [exc |-> "none",
              val |-> CASE op = ">" -> c = "gt"
                        [] op = "<" -> c = "lt"
                        [] op = ">=" -> c \in {"gt", "eq"}
                        [] op = "<=" -> c \in {"lt", "eq"}]

\* OPERATORS[op](a, b): [exc, val]
ApplyOperator(op, a, b) ==
    IF op = "~"
    THEN IF a.t # "str" THEN [exc |-> "TypeError", val |-> FALSE]
         ELSE ReMatch(b, a.s)
    ELSE LET cast == CastDown(a, b)
             c == Cmp(a, cast.val)
         IN  IF cast.exc # "none" THEN [exc |-> cast.exc, val |-> FALSE]
             ELSE IF op = "=" THEN [exc |-> "none", val |-> c = "eq"]
             ELSE IF c = "ne" THEN [exc |-> "TypeError", val |-> FALSE]
             ELSE [exc |-> "none",
                   val |-> CASE op = ">" -> c = "gt"
                             [] op = "<" -> c = "lt"
                             [] op = ">=" -> c \in {"lt", "eq"}
                             [] op = "<=" -> c \in {"gt", "eq"}]

OPERATORS == {"=", ">", "<", ">=", "<=", "~"}

\* make_filter_func(line): [exc, val], val the compiled filter [k, field, op, value]
make_filter_func(line) ==
    LET parts == SplitWs(DropStr(line, 7), 2)
        none == [k |-> "leaf", field |-> "", op |-> "", value |-> ""]
    IN  IF Len(parts) < 2 THEN [exc |-> "ValueError", val |-> none]
        ELSE IF parts[2] \notin OPERATORS THEN [exc |-> "ValueError", val |-> none]
        ELSE [exc |-> "none",
              val |-> [k |-> "leaf", field |-> parts[1], op |-> parts[2],
                       value |-> IF Len(parts) = 3 THEN parts[3] ELSE ""]]

\* and_(filters) and or_(filters): the combined filter
and_(filters) == [k |-> "and", ps |-> filters]
or_(filters) == [k |-> "or", ps |-> filters]

\* filt(entry) for a compiled filter: [exc, val].  _and_impl and _or_impl build the
\* whole list of results before all() and any(), so every filter is applied and the
\* first one that raises decides.
RECURSIVE ApplyFilter(_, _)
ApplyFilter(filt, entry) ==
    IF filt.k = "leaf"
    THEN IF filt.field \notin DOMAIN entry THEN [exc |-> "KeyError", val |-> FALSE]
         ELSE ApplyOperator(filt.op, entry[filt.field], filt.value)
    ELSE LET rs == [i \in 1..Len(filt.ps) |-> ApplyFilter(filt.ps[i], entry)]
             bad == {i \in 1..Len(rs) : rs[i].exc # "none"}
         IN  IF bad # {} THEN rs[CHOOSE i \in bad : \A j \in bad : i <= j]
             ELSE [exc |-> "none",
                   val |-> IF filt.k = "and" THEN \A i \in 1..Len(rs) : rs[i].val
                           ELSE \E i \in 1..Len(rs) : rs[i].val]

-----------------------------------------------------------------------------
(* The filter evaluator: evaluate_filter.                                  *)

\* seq[:-count] and seq[-count:] as Python slices them: -0 is 0, so count = 0 leaves
\* nothing below and takes the whole list
SliceBelow(seq, count) ==
    LET n == Len(seq)
        stop == IF count > 0 THEN (IF n - count > 0 THEN n - count ELSE 0)
                ELSE IF 0 - count < n THEN 0 - count ELSE n
    IN  SubSeq(seq, 1, stop)

SliceTop(seq, count) == SubSeq(seq, Len(SliceBelow(seq, count)) + 1, Len(seq))

\* The loop of evaluate_filter over the lines, the stack of filters so far: [exc, val]
RECURSIVE FilterLines(_, _)
FilterLines(lines, filters) ==
    IF lines = <<>> THEN [exc |-> "none", val |-> filters]
    ELSE LET line == lines[1]
         IN  IF StartsWith(line, "Filter:")
             THEN LET f == make_filter_func(line)
                  IN  IF f.exc # "none" THEN [exc |-> f.exc, val |-> filters]
                      ELSE FilterLines(Tail(lines), Append(filters, f.val))
             ELSE IF StartsWith(line, "And:") \/ StartsWith(line, "Or:")
             THEN LET parts == Split1(line, " ")
                      count == ParseInt(parts[2])
                      below == SliceBelow(filters, count.val)
                      params == SliceTop(filters, count.val)
                  IN  IF Len(parts) # 2 THEN [exc |-> "ValueError", val |-> filters]
                      ELSE IF count.exc # "none" THEN [exc |-> count.exc, val |-> filters]
                      ELSE IF parts[1] = "And:"
                      THEN FilterLines(Tail(lines), Append(below, and_(params)))
                      ELSE IF parts[1] = "Or:"
                      THEN FilterLines(Tail(lines), Append(below, or_(params)))
                      ELSE [exc |-> "KeyError", val |-> filters]
             ELSE FilterLines(Tail(lines), filters)

\* Every entry of result, whatever the filter says
AllRows(result, rs) == result

\* The entries of result whose filter result rs[i] is true, in their order
RECURSIVE KeptRows(_, _)
KeptRows(result, rs) ==
    IF result = <<>> THEN <<>>
    ELSE (IF rs[1].val THEN <<result[1]>> ELSE <<>>) \o KeptRows(Tail(result), Tail(rs))

\* The comprehension, given the results rs of the filter on the entries: the first
\* entry on which the filter raises ends it
SelectByResults(result, rs) ==
    LET bad == {i \in 1..Len(rs) : rs[i].exc # "none"}
    IN  IF bad # {} THEN [exc |-> rs[CHOOSE i \in bad : \A j \in bad : i <= j].exc,
                          val |-> <<>>]
        ELSE [exc |-> "none", val |-> KeptRows(result, rs)]

\* [entry for entry in result if filt(entry)]: [exc, val]
SelectRows(filt, result) ==
    SelectByResults(result, [i \in 1..Len(result) |-> ApplyFilter(filt, result[i])])

\* evaluate_filter once the lines are read: filters is [exc, val]
EvaluateFilters(filters, result) ==
    IF filters.exc # "none" THEN [exc |-> filters.exc, val |-> <<>>]
    ELSE IF filters.val = <<>> THEN [exc |-> "none", val |-> result]
    ELSE IF Len(filters.val) > 1 THEN [exc |-> "ValueError", val |-> <<>>]
    ELSE SelectRows(filters.val[1], result)

\* evaluate_filter(query, result): [exc, val], val the rows that pass
evaluate_filter(query, result) ==
    EvaluateFilters(FilterLines(SplitLines(query), <<>>), result)

-----------------------------------------------------------------------------
(* The query matcher: _compare.                                            *)

MatchTypes == {"strict", "ellipsis", "loose"}

\* _compare(pattern, string, match_type): [exc, val]
_compare(pattern, string, match_type) ==
    IF match_type = "loose"
    THEN LET string_lines == SplitLines(string)
             lines == SplitLines(pattern)
         IN  [exc |-> "none",
              val |-> \A i \in 1..Len(lines) :
                          StartsWith(lines[i], "Cache: ") \/ InSeq(lines[i], string_lines)]
    ELSE IF match_type = "strict"
    THEN [exc |-> "none", val |-> pattern = string]
    ELSE IF match_type = "ellipsis"
    THEN LET final_pattern == Replace(Replace(pattern, "[", "\\["), "...", ".*?")
         IN  ReMatch("^" \o final_pattern \o "$", string)
    ELSE [exc |-> "LookupError", val |-> FALSE]

-----------------------------------------------------------------------------
(* MockLiveStatusConnection: construction.                                 *)

\* The two values __init__ reads from the clock, at the instant of the example of
\* the class docstring
_today == "2020.07.03"
_program_start_timestamp == 1593762478

\* self._tables as __init__ fills it: a row is a function from column name to value
DefaultTables ==
    [status |-> <<
        [livestatus_version |-> StrV(_today),
         program_version |-> StrV("Check_MK " \o _today),
         program_start |-> IntV(_program_start_timestamp),
         num_hosts |-> IntV(1),
         num_services |-> IntV(36),
         helper_usage_cmk |-> FloatV("0.00151953"),
         helper_usage_fetcher |-> FloatV("0.00151953"),
         helper_usage_checker |-> FloatV("0.00151953"),
         helper_usage_generic |-> FloatV("0.00151953"),
         average_latency_cmk |-> FloatV("0.0846039"),
         average_latency_fetcher |-> FloatV("0.0846039"),
         average_latency_generic |-> FloatV("0.0846039")]>>,
     downtimes |-> <<
        [id |-> IntV(54),
         host_name |-> StrV("heute"),
         service_description |-> StrV("CPU load"),
         is_service |-> IntV(1),
         author |-> StrV("cmkadmin"),
         start_time |-> IntV(1593770319),
         end_time |-> IntV(1596448719),
         recurring |-> IntV(0),
         comment |-> StrV("Downtime for service")]>>,
     hosts |-> <<
        [name |-> StrV("heute"), parents |-> ListV(<<StrV("example.com")>>)],
        [name |-> StrV("example.com"), parents |-> ListV(<<>>)]>>,
     services |-> <<
        [host_name |-> StrV("example.com"), description |-> StrV("Memory")],
        [host_name |-> StrV("example.com"), description |-> StrV("CPU load")],
        [host_name |-> StrV("heute"), description |-> StrV("CPU load")]>>,
     hostgroups |-> <<
        [name |-> StrV("heute"), members |-> ListV(<<StrV("heute")>>)],
        [name |-> StrV("example"), members |-> ListV(<<StrV("example.com"), StrV("heute")>>)]>>,
     servicegroups |-> <<
        [name |-> StrV("heute"),
         members |-> ListV(<<ListV(<<StrV("heute"), StrV("Memory")>>)>>)],
        [name |-> StrV("example"),
         members |-> ListV(<<ListV(<<StrV("example.com"), StrV("Memory")>>),
                             ListV(<<StrV("example.com"), StrV("CPU load")>>),
                             ListV(<<StrV("heute"), StrV("CPU load")>>)>>)]>>]

\* What a call left behind for its caller: the exception it raised ("none" when it
\* returned), the message of the exception, and the bytes it returned
Outcome(op, exc, msg, ret) == [op |-> op, exc |-> exc, msg |-> msg, ret |-> ret]

-----------------------------------------------------------------------------
(* MockLiveStatusConnection.expect_query.                                  *)

\* `for entry in self._tables.get(table, []): columns = sorted(entry.keys())`:
\* the loop leaves the sorted keys of the last row
ColumnsFromStore(tables, table, columns) ==
    IF table \in DOMAIN tables /\ tables[table] # <<>>
    THEN SortedStrs(DOMAIN tables[table][Len(tables[table])])
    ELSE columns

\* The rows of the response: for every entry the values of the columns, KeyError on
\* the first column an entry lacks: [exc, msg, val]
RECURSIVE ResultRows(_, _, _)
ResultRows(result_dicts, columns, table) ==
    IF result_dicts = <<>> THEN [exc |-> "none", msg |-> "", val |-> <<>>]
    ELSE LET entry == result_dicts[1]
             missing == {i \in 1..Len(columns) : columns[i] \notin DOMAIN entry}
             rest == ResultRows(Tail(result_dicts), columns, table)
         IN  IF missing # {}
             THEN LET col == columns[CHOOSE i \in missing : \A j \in missing : i <= j]
                  IN  [exc |-> "KeyError",
                       msg |-> "Column '" \o table \o "." \o col \o "' not known. "
                               \o "Add to test-data or fix query.",
                       val |-> <<>>]
             ELSE IF rest.exc # "none" THEN rest
             ELSE [exc |-> "none", msg |-> "",
                   val |-> <<[i \in 1..Len(columns) |-> entry[columns[i]]]>> \o rest.val]

\* list.insert(pos, x) for pos >= 0
ListInsert(list, pos, x) ==
    LET at == IF pos < Len(list) THEN pos ELSE Len(list)
    IN  SubSeq(list, 1, at) \o <<x>> \o SubSeq(list, at + 1, Len(list))

\* `columns = _column_of_query(query) or []`, and the columns of the store when a
\* table is named and no column is asked for; table and explicit are Optional
ColumnsOf(tables, table, explicit) ==
    LET columns == IF explicit.none THEN <<>> ELSE explicit.val
    IN  IF ~table.none /\ columns = <<>>
        THEN ColumnsFromStore(tables, table.val, columns)
        ELSE columns

\* The rows of the entries left by the filters: [exc, msg, val]
ResultOfDicts(result_dicts, columns, table) ==
    IF result_dicts.exc # "none" THEN [exc |-> result_dicts.exc, msg |-> "", val |-> <<>>]
    ELSE ResultRows(result_dicts.val, columns, table)

\* `if table and columns:` holds: the result of the query on the store,
\* [exc, msg, val]
ResultOf(tables, query, table, columns) ==
    IF table \notin DOMAIN tables
    THEN [exc |-> "KeyError",
          msg |-> "Table " \o StrRepr(table) \o " not stored. Call .add_table(...)",
          val |-> <<>>]
    ELSE ResultOfDicts(evaluate_filter(query, tables[table]), columns, table)

\* The queue with the tuple (query, columns, result, match_type) inserted at
\* force_pos, or appended when force_pos is None: [exc, msg, queue].  force_pos is
\* <<>> for None and <<pos>> for a position.
Enqueue(queue, force_pos, entry) ==
    [exc |-> "none", msg |-> "",
     queue |-> IF force_pos # <<>> THEN ListInsert(queue, force_pos[1], entry)
               ELSE Append(queue, entry)]

\* expect_query keeps the columns and leaves the rows to be resolved later
ExpectNoRows(queue, query, columns, match_type, force_pos, result) ==
    IF result.exc # "none" THEN [exc |-> result.exc, msg |-> result.msg, queue |-> queue]
    ELSE Enqueue(queue, force_pos,
                 [query |-> query, columns |-> columns, result |-> <<>>,
                  match_type |-> match_type])

\* expect_query once the result is computed
ExpectResult(queue, query, columns, match_type, force_pos, result) ==
    IF result.exc # "none" THEN [exc |-> result.exc, msg |-> result.msg, queue |-> queue]
    ELSE Enqueue(queue, force_pos,
                 [query |-> query, columns |-> columns, result |-> result.val,
                  match_type |-> match_type])

\* expect_query resolves every query that names a table
ExpectAlwaysResolved(tables, queue, query, match_type, force_pos, table, columns) ==
    IF table.none
    THEN Enqueue(queue, force_pos,
                 [query |-> query, columns |-> columns, result |-> <<>>,
                  match_type |-> match_type])
    ELSE ExpectResult(queue, query, columns, match_type, force_pos,
                      ResultOf(tables, query, table.val, columns))

\* expect_query once the table (Optional) and the columns are known: without a
\* table or without columns the result is empty
ExpectColumns(tables, queue, query, match_type, force_pos, table, columns) ==
    IF table.none \/ columns = <<>>
    THEN Enqueue(queue, force_pos,
                 [query |-> query, columns |-> columns, result |-> <<>>,
                  match_type |-> match_type])
    ELSE ExpectResult(queue, query, columns, match_type, force_pos,
                      ResultOf(tables, query, table.val, columns))

\* expect_query once _table_of_query has returned or raised
ExpectOnTable(tables, queue, query, match_type, force_pos, table) ==
    IF table.exc # "none" THEN [exc |-> table.exc, msg |-> "", queue |-> queue]
    ELSE ExpectColumns(tables, queue, query, match_type, force_pos, table.val,
                       ColumnsOf(tables, table.val, _column_of_query(query)))

\* expect_query on the query without its trailing newlines
ExpectStripped(tables, queue, query, match_type, force_pos) ==
    ExpectOnTable(tables, queue, query, match_type, force_pos, _table_of_query(query))

\* expect_query queues the query before it looks at the match type
ExpectQueryQueued(tables, queue, query0, match_type, force_pos) ==
    IF match_type \notin MatchTypes
    THEN [exc |-> "ValueError",
          msg |-> "match_type " \o StrRepr(match_type) \o " not supported.",
          queue |-> Append(queue, [query |-> query0, columns |-> <<>>, result |-> <<>>,
                                   match_type |-> match_type])]
    ELSE ExpectStripped(tables, queue, RStripNL(query0), match_type, force_pos)

\* expect_query(query, match_type, force_pos) on the store `tables` and the queue
\* `queue`: [exc, msg, queue], queue the new self._expected_queries (the old one
\* when the call raises)
ExpectQuery(tables, queue, query0, match_type, force_pos) ==
    IF match_type \notin MatchTypes
    THEN [exc |-> "ValueError",
          msg |-> "match_type " \o StrRepr(match_type) \o " not supported.",
          queue |-> queue]
    ELSE ExpectStripped(tables, queue, RStripNL(query0), match_type, force_pos)

\* The query _expect_post_connect_query declares, a list of lines
StatusQueryLines ==
    <<"GET status",
      "Cache: reload",
      "Columns: livestatus_version program_version program_start num_hosts num_services">>

\* The status query declared behind the queries already expected
ExpectStatusQueryLast(tables, queue) ==
    ExpectQuery(tables, queue, Join(NL, StatusQueryLines), "loose", <<>>)

\* _expect_post_connect_query(): expect_query joins the list with newlines
_expect_post_connect_query(tables, queue) ==
    ExpectQuery(tables, queue, Join(NL, StatusQueryLines), "loose", <<0>>)

-----------------------------------------------------------------------------
(* MockLiveStatusConnection._lookup_next_query, socket_send, socket_recv.  *)

\* The output with the site marker in front of every row, the header row included
GenerateOutputMarked(show_columns, columns, response, prepend_site) ==
    LET rows == (IF show_columns = "on"
                 THEN <<[i \in 1..Len(columns) |-> StrV(columns[i])]>> ELSE <<>>)
                \o response
    IN  IF prepend_site THEN [i \in 1..Len(rows) |-> <<StrV("NO_SITE")>> \o rows[i]]
        ELSE rows

\* list(_generate_output()): the header row when ColumnHeaders is on, then the rows,
\* each behind the site marker when prepend_site is set
GenerateOutput(show_columns, columns, response, prepend_site) ==
    (IF show_columns = "on" THEN <<[i \in 1..Len(columns) |-> StrV(columns[i])]>> ELSE <<>>)
    \o (IF prepend_site
        THEN [i \in 1..Len(response) |-> <<StrV("NO_SITE")>> \o response[i]]
        ELSE response)

\* The queue without its last entry
PopLast(queue) == SubSeq(queue, 1, Len(queue) - 1)

\* self._expected_queries.pop(0)
PopHead(queue) == Tail(queue)

\* _lookup_next_query raises and drops the response buffered before
LookupRaisesReset(queue, last_response, exc, msg) ==
    [exc |-> exc, msg |-> msg, queue |-> queue, last_response |-> NoneIO,
     response |-> <<>>]

\* _lookup_next_query raises: the queue and the StringIO stay
LookupRaises(queue, last_response, exc, msg) ==
    [exc |-> exc, msg |-> msg, queue |-> queue, last_response |-> last_response,
     response |-> <<>>]

\* _lookup_next_query once the query has passed: the head is removed and the
\* response buffered
LookupPassed(queue, response) ==
    [exc |-> "none", msg |-> "", queue |-> PopHead(queue),
     last_response |-> StringIO(_make_livestatus_response(response)),
     response |-> response]

\* _lookup_next_query once _compare has returned or raised, matched its [exc, val]
LookupCompared(queue, last_response, prepend_site, query, show_columns, matched) ==
    IF matched.exc # "none" THEN LookupRaises(queue, last_response, matched.exc, "")
    ELSE IF ~matched.val
    THEN LookupRaises(queue, last_response, "RuntimeError",
                      "Expected query (" \o queue[1].match_type \o "):\n * "
                      \o StrRepr(queue[1].query) \o "\nGot query:\n * " \o StrRepr(query))
    ELSE LookupPassed(queue, GenerateOutput(show_columns, queue[1].columns,
                                            queue[1].result, prepend_site))

\* _lookup_next_query once _unpack_headers has returned or raised, header_dict its
\* [exc, val]
LookupUnpacked(queue, last_response, prepend_site, query, header_dict) ==
    IF header_dict.exc # "none" THEN LookupRaises(queue, last_response, header_dict.exc, "")
    ELSE IF queue = <<>>
    THEN LookupRaises(queue, last_response, "RuntimeError",
                      "Got unexpected query:\n * " \o StrRepr(query))
    ELSE LookupCompared(queue, last_response, prepend_site, query,
                        DictPop(header_dict.val, "ColumnHeaders", "off"),
                        _compare(queue[1].query, query, queue[1].match_type))

\* _lookup_next_query(query): [exc, msg, queue, last_response, response], the queue
\* and the StringIO it leaves and the response it returns
_lookup_next_query(expect_status_query, queue, last_response, prepend_site, query) ==
    IF expect_status_query = None
    THEN LookupRaises(queue, last_response, "RuntimeError",
                      "Please use MockLiveStatusConnection as a context manager.")
    ELSE LookupUnpacked(queue, last_response, prepend_site, query, _unpack_headers(query))

\* No response is left to read: none was buffered, or all of it was read
NothingBuffered(last_response) ==
    \/ last_response = NoneIO
    \/ last_response.pos = Len(last_response.buf)

\* `self._last_response is None`
NothingSent(last_response) == last_response = NoneIO

\* The data of socket_send without one trailing b"\n\n"
StripTerminator(data) ==
    IF Len(data) >= 2 /\ SubSeq(data, Len(data) - 1, Len(data)) = <<10, 10>>
    THEN SubSeq(data, 1, Len(data) - 2)
    ELSE data

\* io.StringIO.read(length) for length >= 0: the characters read and the new position
StringIORead(io, length) ==
    LET text == SubSeq(io.buf, io.pos + 1,
                       IF io.pos + length < Len(io.buf) THEN io.pos + length ELSE Len(io.buf))
    IN  [text |-> text, io |-> [io EXCEPT !.pos = io.pos + Len(text)]]

-----------------------------------------------------------------------------
(* The inputs of the calls, and the bounds of the model.                   *)

\* expect_query is called while the queue is shorter than MaxQueue, and __enter__
\* while it is no longer than MaxQueue
MaxQueue == 2

\* socket_send is called while fewer than MaxAccepted sends were accepted since
\* __enter__
MaxAccepted == 3

HostsByName == "GET hosts\nColumns: name"
HostsCached == "GET hosts\nCache: reload\nColumns: name"
HostsNoSpace == "GET hosts\nColumns:name"
HostsEllipsis == "GET ...\nColumns: name"
HostsAlias == "GET hosts\nColumns: alias"
HostsWithHeaders == "GET hosts\nColumns: name\nColumnHeaders: on"
ServicesQuery == "GET services"
StatusQuery == Join(NL, StatusQueryLines)

\* The (query, match_type) pairs expect_query is called with
Declarations == {<<HostsByName, "loose">>, <<HostsNoSpace, "strict">>}

\* The texts of the queries sent
SentTexts == {HostsByName, StatusQuery, HostsNoSpace}
SentData == {Encode(text) : text \in SentTexts}

\* The same for the specification of the transport, SpecTransport; livestatus.py
\* ends a query with an empty line
TransportDeclarations == {<<HostsByName, "loose">>}
TransportTexts == {HostsByName, HostsWithHeaders \o "\n\n"}
TransportData == {Encode(text) : text \in TransportTexts}

\* The lengths socket_recv is called with: that of the header of a frame, and one
\* beyond every frame
RecvLengths == {16, 1024}

\* The exc_type __exit__ is called with: None when the block ended normally
ExcTypes == {None, "RuntimeError"}

\* The (name, data) pairs add_table is called with
TableData == {<<"status", <<[num_hosts |-> IntV(1)]>> >>}

\* The same for the specification of the matching of queries, SpecMatch
MatchDeclarations ==
    {<<HostsByName, "loose">>, <<HostsCached, "loose">>, <<HostsByName, "strict">>,
     <<HostsNoSpace, "strict">>, <<HostsEllipsis, "ellipsis">>, <<HostsAlias, "loose">>}

MatchTexts ==
    {HostsByName, HostsCached, HostsNoSpace, ServicesQuery, HostsWithHeaders \o "\n\n"}
MatchData == {Encode(text) : text \in MatchTexts}

\* The same for the specification of the store and the responses, SpecStore: a
\* table whose only row holds characters outside ASCII
HostsUmlaut == <<[name |-> StrV("ä€")]>>

\* The lengths socket_recv is called with there: that of the header of a frame, and
\* that of the body of the frame of HostsUmlaut, in characters
StoreLengths == {16, 8}

\* The patterns and the strings _compare is called with in SpecCompare: queries
\* with more, fewer and reordered lines, and the texts of the examples of its
\* docstring
CompareTexts ==
    {HostsByName, HostsCached, HostsEllipsis, "GET hosts",
     "GET hosts\nCache: reload\nColumns: name\nLocaltime: 12345",
     "Columns: name\nLocaltime: 12345\nGET hosts",
     "GET hosts\nColumns: alias name", "GET hosts\n",
     "COMMAND [...] DEL_FOO;", "COMMAND [123] DEL_FOO;",
     "Hello ... world!", "Hello cruel world!", "...b", "abc", "a.c"}

\* The queries and the tables evaluate_filter is called with in SpecFilter: the
\* queries and the rows of the examples of its docstring, the counts of And: and Or:
\* from 0 to one more than the filters before them, and the tables of up to
\* MaxRows of the rows
FilterQueries ==
    {"GET hosts", "GET hosts\nFilter: name = heute", "GET hosts\nFilter: name ~ heu",
     "GET hosts\nFilter: state > 0", "GET hosts\nOr: 0", "GET hosts\nAnd: 0"}
    \cup {"GET hosts\nFilter: name = heute\nFilter: state > 0\n" \o directive \o count :
            directive \in {"And: ", "Or: "}, count \in {"0", "1", "2", "3"}}

MaxRows == 3

FilterRows ==
    {[name |-> StrV("heute"), state |-> IntV(0)],
     [name |-> StrV("morgen"), state |-> IntV(1)]}

FilterTables == UNION {[1..n -> FilterRows] : n \in 0..MaxRows}

\* Tables whose rows do not all have the same columns, for SpecColumns
MixedTables ==
    {<<[name |-> StrV("heute"), alias |-> StrV("h")], [name |-> StrV("morgen")]>>,
     <<[name |-> StrV("morgen")], [name |-> StrV("heute"), alias |-> StrV("h")]>>,
     <<[name |-> StrV("heute"), alias |-> StrV("h")]>>}

\* The same for the specification of the declarations, SpecDeclare: queries on the
\* stored table `hosts` that ask for a column no row has, the second with a filter
\* no row passes
UnknownColumnQueries ==
    {"GET hosts\nColumns: bogus", "GET hosts\nColumns: bogus\nFilter: name = nobody"}

\* Queries on a table that is not stored, and queries that name no table
UnknownTableQueries ==
    {"GET nothing\nColumns: name", "GET nothing\nColumns: name\nFilter: name = x",
     "GET nothing", "GET nothing\nFilter: name = x", "GET nothing\nColumns:",
     "Columns: name", "COMMAND [1] X", "GET "}

-----------------------------------------------------------------------------
(* The calls on one MockLiveStatusConnection, and the `with` block around   *)
(* them.                                                                   *)

Init ==
    /\ _prepend_site = FALSE
    /\ _expected_queries = <<>>
    /\ _report_multiple \in BOOLEAN
    /\ _expect_status_query = None
    /\ _last_response = NoneIO
    /\ _tables = DefaultTables
    /\ in_scope = FALSE
    /\ outcome = Outcome("__init__", "none", "", <<>>)
    /\ accepted = <<>>
    /\ raised = FALSE

\* MockLiveStatusConnection(), report_multiple at its default
InitDefault == Init /\ ~_report_multiple

\* live(expect_status_query=...)
__call__(expect_status_query) ==
    /\ _expect_status_query' = PyBool(expect_status_query)
    /\ outcome' = Outcome("__call__", "none", "", <<>>)
    /\ UNCHANGED <<_prepend_site, _expected_queries, _report_multiple, _last_response,
                   _tables, in_scope, accepted, raised>>

\* The flag of a scope entered without one set to False
DefaultFlagOff(flag) == IF flag = None THEN False ELSE flag

\* `if self._expect_status_query is None: self._expect_status_query = True`
DefaultFlag(flag) == IF flag = None THEN True ELSE flag

\* __enter__ once _expect_post_connect_query has returned or raised, r its
\* [exc, msg, queue]
EnterExpecting(r) ==
    /\ _expected_queries' = r.queue
    /\ in_scope' = (r.exc = "none")
    /\ outcome' = Outcome("__enter__", r.exc, r.msg, <<>>)

\* __enter__ once the flag has its default
EnterWith(flag) ==
    /\ _expect_status_query' = flag
    /\ IF flag = True
       THEN EnterExpecting(_expect_post_connect_query(_tables, _expected_queries))
       ELSE /\ _expected_queries' = _expected_queries
            /\ in_scope' = TRUE
            /\ outcome' = Outcome("__enter__", "none", "", <<>>)

\* `with live:`; the block is entered when __enter__ returns, and not when it raises
__enter__ ==
    /\ ~in_scope
    /\ Len(_expected_queries) <= MaxQueue
    /\ EnterWith(DefaultFlag(_expect_status_query))
    /\ accepted' = <<>>
    /\ raised' = FALSE
    /\ UNCHANGED <<_prepend_site, _report_multiple, _last_response, _tables>>

\* The message of the RuntimeError of __exit__
RECURSIVE RemainingQueries(_)
RemainingQueries(queue) ==
    IF queue = <<>> THEN ""
    ELSE "\n * " \o StrRepr(queue[1].query) \o RemainingQueries(Tail(queue))

\* An exception leaves the block
ReportSuppressedAlways(exc_type, report_multiple) == exc_type # None

\* `if exc_type and not self._report_multiple: return`
ReportSuppressed(exc_type, report_multiple) == exc_type # None /\ ~report_multiple

\* The end of the `with` block: __exit__(exc_type, exc_val, exc_tb), exc_type None
\* when the block ended without an exception
__exit__(exc_type) ==
    /\ in_scope
    /\ _expect_status_query' = None
    /\ in_scope' = FALSE
    /\ outcome' =
         IF ReportSuppressed(exc_type, _report_multiple)
         THEN Outcome("__exit__", "none", "", <<>>)
         ELSE IF _expected_queries # <<>>
         THEN Outcome("__exit__", "RuntimeError",
                      "Expected queries were not queried:"
                      \o RemainingQueries(_expected_queries), <<>>)
         ELSE Outcome("__exit__", "none", "", <<>>)
    /\ accepted' = <<>>
    /\ raised' = FALSE
    /\ UNCHANGED <<_prepend_site, _expected_queries, _report_multiple, _last_response,
                   _tables>>

add_table(name, data) ==
    /\ _tables' = IF name \in DOMAIN _tables THEN [_tables EXCEPT ![name] = data]
                  ELSE (name :> data) @@ _tables
    /\ outcome' = Outcome("add_table", "none", "", <<>>)
    /\ UNCHANGED <<_prepend_site, _expected_queries, _report_multiple,
                   _expect_status_query, _last_response, in_scope, accepted, raised>>

\* expect_query once it has returned or raised, r its [exc, msg, queue]
Expected(r) ==
    /\ _expected_queries' = r.queue
    /\ outcome' = Outcome("expect_query", r.exc, r.msg, <<>>)

\* live.expect_query(query, match_type)
expect_query(query, match_type) ==
    /\ Len(_expected_queries) < MaxQueue
    /\ Expected(ExpectQuery(_tables, _expected_queries, query, match_type, <<>>))
    /\ UNCHANGED <<_prepend_site, _report_multiple, _expect_status_query, _last_response,
                   _tables, in_scope, accepted, raised>>

\* The query of socket_send(data): [exc, val]
QueryOf(data) == Decode(StripTerminator(data))

\* socket_send once _lookup_next_query(query) has returned or raised, r its
\* [exc, msg, queue, last_response, response]
Looked(query, r) ==
    /\ _expected_queries' = r.queue
    /\ _last_response' = r.last_response
    /\ outcome' = Outcome("socket_send", r.exc, r.msg, <<>>)
    /\ accepted' = IF r.exc # "none" THEN <<>>
                   ELSE IF raised THEN accepted
                   ELSE Append(accepted, <<_expected_queries[1].query, query>>)
    /\ raised' = (raised \/ r.exc # "none")

\* socket_send once the data is decoded, text its [exc, val]
SendText(text) ==
    IF text.exc # "none"
    THEN /\ outcome' = Outcome("socket_send", text.exc, "", <<>>)
         /\ accepted' = <<>>
         /\ raised' = TRUE
         /\ UNCHANGED <<_expected_queries, _last_response>>
    ELSE Looked(text.val,
                _lookup_next_query(_expect_status_query, _expected_queries,
                                   _last_response, _prepend_site, text.val))

\* socket.send(data)
socket_send(data) ==
    /\ Len(accepted) < MaxAccepted
    /\ SendText(QueryOf(data))
    /\ UNCHANGED <<_prepend_site, _report_multiple, _expect_status_query, _tables, in_scope>>

\* socket.recv(length)
socket_recv(length) ==
    /\ IF NothingSent(_last_response)
       THEN /\ outcome' = Outcome("socket_recv", "RuntimeError",
                                  "Nothing sent yet. Can't receive!", <<>>)
            /\ UNCHANGED _last_response
       ELSE LET r == StringIORead(_last_response, length)
            IN  /\ outcome' = Outcome("socket_recv", "none", "", Encode(r.text))
                /\ _last_response' = r.io
    /\ UNCHANGED <<_prepend_site, _expected_queries, _report_multiple,
                   _expect_status_query, _tables, in_scope, accepted, raised>>

set_prepend_site(prepend_site) ==
    /\ _prepend_site' = prepend_site
    /\ outcome' = Outcome("set_prepend_site", "none", "", <<>>)
    /\ UNCHANGED <<_expected_queries, _report_multiple, _expect_status_query,
                   _last_response, _tables, in_scope, accepted, raised>>

\* The session: the scope, the declarations and the queries sent
Next ==
    \/ \E expect_status_query \in BOOLEAN : __call__(expect_status_query)
    \/ __enter__
    \/ \E exc_type \in ExcTypes : __exit__(exc_type)
    \/ \E t \in TableData : add_table(t[1], t[2])
    \/ \E d \in Declarations : expect_query(d[1], d[2])
    \/ \E data \in SentData : socket_send(data)

Spec == InitDefault /\ [][Next]_vars

\* The session of an instance constructed with either value of report_multiple
SpecReport == Init /\ [][Next]_vars

\* The transport: queries sent and responses received, in scopes without a status
\* probe
NextTransport ==
    \/ __call__(FALSE)
    \/ (_expect_status_query = False /\ __enter__)
    \/ __exit__(None)
    \/ \E d \in TransportDeclarations : expect_query(d[1], d[2])
    \/ \E data \in TransportData : socket_send(data)
    \/ \E length \in RecvLengths : socket_recv(length)
    \/ \E prepend_site \in BOOLEAN : set_prepend_site(prepend_site)

SpecTransport == InitDefault /\ [][NextTransport]_vars

\* The matching of queries: more declarations and texts, in scopes without a status
\* probe
NextMatch ==
    \/ __call__(FALSE)
    \/ (_expect_status_query = False /\ __enter__)
    \/ \E exc_type \in ExcTypes : __exit__(exc_type)
    \/ \E d \in MatchDeclarations : expect_query(d[1], d[2])
    \/ \E data \in MatchData : socket_send(data)

SpecMatch == InitDefault /\ [][NextMatch]_vars

\* A call of one of the functions of the module on the arguments args, r its
\* [exc, val]: the caller is left with the exception or the value returned
Call(op, args, r) ==
    /\ outcome' = [op |-> op, exc |-> r.exc, msg |-> "", ret |-> r.val, args |-> args]
    /\ UNCHANGED <<_prepend_site, _expected_queries, _report_multiple,
                   _expect_status_query, _last_response, _tables, in_scope, accepted,
                   raised>>

\* The matcher on its own: _compare(pattern, string, match_type)
NextCompare ==
    \E pattern \in CompareTexts, string \in CompareTexts, match_type \in MatchTypes :
        Call("_compare", <<pattern, string, match_type>>,
             _compare(pattern, string, match_type))

SpecCompare == InitDefault /\ [][NextCompare]_vars

\* The filter evaluator on its own: evaluate_filter(query, result)
NextFilter ==
    \E query \in FilterQueries, result \in FilterTables :
        Call("evaluate_filter", <<query, result>>, evaluate_filter(query, result))

SpecFilter == InitDefault /\ [][NextFilter]_vars

\* The filter compiler on its own: make_filter_func("Filter: field op value")
\* applied to a row, the columns an int and a str
NextOperators ==
    \E field \in {"state", "name"}, op \in {"=", ">", "<", ">=", "<="},
       value \in {"0", "01", "9", "heute"},
       row \in {[name |-> StrV("heute"), state |-> IntV(0)],
                [name |-> StrV("morgen"), state |-> IntV(1)],
                [name |-> StrV("01"), state |-> IntV(10)]} :
        LET f == make_filter_func("Filter: " \o field \o " " \o op \o " " \o value)
        IN  Call("make_filter_func", <<field, op, value, row>>,
                 IF f.exc # "none" THEN [exc |-> f.exc, val |-> FALSE]
                 ELSE ApplyFilter(f.val, row))

SpecOperators == InitDefault /\ [][NextOperators]_vars

\* Sends that fail between sends that are accepted: heads declared in each match
\* type, queries that match them and queries that do not, and responses partly read
NextRetry ==
    \/ __call__(FALSE)
    \/ (_expect_status_query = False /\ __enter__)
    \/ __exit__(None)
    \/ \E d \in {<<HostsByName, "strict">>, <<HostsEllipsis, "ellipsis">>,
                  <<ServicesQuery, "loose">>} : expect_query(d[1], d[2])
    \/ \E text \in {HostsByName, HostsCached, ServicesQuery} : socket_send(Encode(text))
    \/ socket_recv(16)

SpecRetry == InitDefault /\ [][NextRetry]_vars

\* Declarations that fail between declarations that succeed, at the end of the
\* queue by expect_query and at its head by __enter__ (the status query, on a table
\* `status` that add_table has left without its columns)
NextReject ==
    \/ __enter__
    \/ __exit__(None)
    \/ \E t \in TableData : add_table(t[1], t[2])
    \/ \E d \in {<<HostsByName, "loose">>, <<ServicesQuery, "strict">>,
                  <<HostsByName, "fuzzy">>,
                  <<"GET nothing\nColumns: name", "loose">>,
                  <<"GET hosts\nColumns: bogus", "loose">>,
                  <<"GET hosts\nColumns: name\nFilter: name !! heute", "loose">>,
                  <<"GET hosts\nColumns: name\nFilter: name = heute\nFilter: name = x",
                    "loose">>} : expect_query(d[1], d[2])

SpecReject == InitDefault /\ [][NextReject]_vars

\* The store and the responses: tables replaced between the declarations and the
\* queries, and the responses read, in scopes without a status probe
NextStore ==
    \/ __call__(FALSE)
    \/ (_expect_status_query = False /\ __enter__)
    \/ __exit__(None)
    \/ add_table("hosts", HostsUmlaut)
    \/ expect_query(HostsByName, "loose")
    \/ socket_send(Encode(HostsByName))
    \/ \E length \in StoreLengths : socket_recv(length)

SpecStore == InitDefault /\ [][NextStore]_vars

\* The declarations: queries declared on the store, the table `hosts` as __init__
\* fills it or emptied
NextDeclare ==
    \/ add_table("hosts", <<>>)
    \/ \E query \in UnknownColumnQueries \cup UnknownTableQueries :
           expect_query(query, "loose")

SpecDeclare == InitDefault /\ [][NextDeclare]_vars

\* The columns of the store: queries without a Columns line declared on tables
\* replaced by add_table
NextColumns ==
    \/ \E data \in MixedTables : add_table("hosts", data)
    \/ \E query \in {"GET hosts", "GET hosts\nFilter: name = heute", ServicesQuery} :
           expect_query(query, "loose")

SpecColumns == InitDefault /\ [][NextColumns]_vars

-----------------------------------------------------------------------------
(* The properties.                                                         *)

\* No send has raised since __enter__, and every query accepted since then was
\* sent with the text it was declared with
ExactSoFar ==
    /\ ~raised
    /\ \A i \in 1..Len(accepted) : accepted[i][1] = accepted[i][2]

\* The entries of the queue that hold the status query
StatusEntries(queue) == {i \in 1..Len(queue) : queue[i].query = StatusQuery}

\* C1: in an entered scope, a send of exactly the text of the head of the queue,
\* after sends of exactly the declared texts in the declared order, never raises,
\* and it buffers the frame of the rows computed for that declaration.
C1_ExactSendsAccepted ==
    [][\A data \in SentData :
         (/\ in_scope
          /\ ExactSoFar
          /\ _expected_queries # <<>>
          /\ QueryOf(data).val = _expected_queries[1].query
          /\ outcome'.op = "socket_send"
          /\ socket_send(data))
         => /\ outcome'.exc = "none"
            /\ _last_response'
                 = StringIO(_make_livestatus_response(_expected_queries[1].result))]_vars

\* C2: a send is accepted only if the query matches the head of the queue; an
\* accepted send removes the head and nothing else, and a send that raises leaves
\* the queue as it was.
C2_QueueIsFifo ==
    [][\A data \in SentData :
         (outcome'.op = "socket_send" /\ socket_send(data))
         => IF outcome'.exc = "none"
            THEN /\ _expected_queries # <<>>
                 /\ _compare(_expected_queries[1].query, QueryOf(data).val,
                             _expected_queries[1].match_type).val
                 /\ Len(_expected_queries') = Len(_expected_queries) - 1
                 /\ \A i \in 1..Len(_expected_queries') :
                        _expected_queries'[i] = _expected_queries[i + 1]
            ELSE _expected_queries' = _expected_queries]_vars

\* A send was accepted while a query that does not match it waited behind the head
C2_Witness ==
    /\ outcome.op = "socket_send"
    /\ outcome.exc = "none"
    /\ accepted # <<>>
    /\ _expected_queries # <<>>
    /\ accepted[Len(accepted)][1] # _expected_queries[1].query

\* C3: when two queries with different texts are expected and exactly these texts
\* are sent in the other order, one of the sends raises: no scope accepts both.
C3_WrongOrderRaises ==
    ~(/\ in_scope
      /\ ~raised
      /\ Len(accepted) = 2
      /\ accepted[1][1] # accepted[2][1]
      /\ accepted[1][2] = accepted[2][1]
      /\ accepted[2][2] = accepted[1][1])

\* C4: in an entered scope with an empty queue every send raises the RuntimeError
\* that names the query as unexpected, and buffers nothing.
C4_UnexpectedQuery ==
    [][\A data \in SentData :
         (/\ in_scope
          /\ _expected_queries = <<>>
          /\ outcome'.op = "socket_send"
          /\ socket_send(data))
         => /\ outcome'.exc = "RuntimeError"
            /\ outcome'.msg = "Got unexpected query:\n * " \o StrRepr(QueryOf(data).val)
            /\ _last_response' = _last_response]_vars

\* C5: __exit__ raises exactly when queries are still expected and either no
\* exception leaves the block or report_multiple is set; the message of its one
\* RuntimeError has, under its first line, one line per remaining query, in the
\* order of the queue.
C5_ExitReportsRemaining ==
    [][\A exc_type \in ExcTypes :
         (outcome'.op = "__exit__" /\ __exit__(exc_type))
         => LET reports == /\ _expected_queries # <<>>
                           /\ (exc_type = None \/ _report_multiple)
            IN  /\ outcome'.exc = (IF reports THEN "RuntimeError" ELSE "none")
                /\ reports =>
                     SplitLines(outcome'.msg)
                       = <<"Expected queries were not queried:">>
                         \o [i \in 1..Len(_expected_queries) |->
                               " * " \o StrRepr(_expected_queries[i].query)]]_vars

\* With report_multiple set, __exit__ raised with two or more queries remaining
C5_Witness ==
    /\ _report_multiple
    /\ outcome.op = "__exit__"
    /\ outcome.exc = "RuntimeError"
    /\ Len(_expected_queries) >= 2
    /\ _expected_queries[1].query # _expected_queries[2].query

\* C6: an __enter__ that expects the status query and returns puts the status
\* expectation in front of the queue, the queries declared before following in
\* their order; the first send of the scope is then accepted only if it loosely
\* matches the status query, and a send of a declared query raises and consumes
\* nothing.
C6_StatusQueryFirst ==
    [][/\ (/\ outcome'.op = "__enter__"
           /\ __enter__
           /\ _expect_status_query \in {None, True}
           /\ in_scope')
          => /\ _expected_queries' # <<>>
             /\ _expected_queries'[1].query = StatusQuery
             /\ _expected_queries'[1].match_type = "loose"
             /\ Tail(_expected_queries') = _expected_queries
             /\ accepted' = <<>>
             /\ ~raised'
       /\ \A data \in SentData :
            (/\ in_scope
             /\ accepted = <<>>
             /\ ~raised
             /\ _expected_queries # <<>>
             /\ _expected_queries[1].query = StatusQuery
             /\ outcome'.op = "socket_send"
             /\ socket_send(data))
            => /\ outcome'.exc = "none"
                    => _compare(StatusQuery, QueryOf(data).val, "loose").val
               /\ QueryOf(data).val \in {d[1] : d \in Declarations}
                    => /\ outcome'.exc # "none"
                       /\ _expected_queries' = _expected_queries]_vars

\* In a scope entered with a declared query behind the status expectation, the
\* first send was rejected
C6_Witness ==
    /\ in_scope
    /\ raised
    /\ outcome.op = "socket_send"
    /\ outcome.exc # "none"
    /\ Len(_expected_queries) >= 2
    /\ _expected_queries[1].query = StatusQuery
    /\ _expected_queries[2].query = HostsByName

\* C7: every __exit__ leaves the flag unset, whatever it was set to and whether or
\* not __exit__ raises; an __enter__ that finds the flag unset expects the status
\* query.
C7_ExitResetsFlag ==
    [][/\ \A exc_type \in ExcTypes :
            (outcome'.op = "__exit__" /\ __exit__(exc_type))
              => _expect_status_query' = None
       /\ (outcome'.op = "__enter__" /\ __enter__ /\ _expect_status_query = None)
            => /\ _expect_status_query' = True
               /\ in_scope' => StatusEntries(_expected_queries') # {}]_vars

\* __exit__ raised, and left the flag unset
C7_Witness ==
    /\ ~in_scope
    /\ outcome.op = "__exit__"
    /\ outcome.exc = "RuntimeError"
    /\ _expect_status_query = None

\* C8: a scope that has been entered holds at most one status expectation, and
\* after __exit__ the queue is empty.
C8_QueueCleanAcrossScopes ==
    /\ in_scope => Cardinality(StatusEntries(_expected_queries)) <= 1
    /\ (~in_scope /\ outcome.op = "__exit__") => _expected_queries = <<>>

\* C9: outside an entered scope every send raises the RuntimeError that asks for
\* the context manager, and consumes nothing.
C9_SendOutsideScope ==
    [][\A data \in SentData :
         (~in_scope /\ outcome'.op = "socket_send" /\ socket_send(data))
         => /\ outcome'.exc = "RuntimeError"
            /\ outcome'.msg = "Please use MockLiveStatusConnection as a context manager."
            /\ _expected_queries' = _expected_queries]_vars

\* C10 as stated: socket_recv raises whenever no response is left to read, be it
\* that none was buffered, that the buffered one was read to its end, or that no
\* query was sent yet in the scope entered.
C10_RecvRaisesWhenNothingLeft ==
    [][\A length \in RecvLengths :
         (/\ \/ NothingBuffered(_last_response)
             \/ (in_scope /\ accepted = <<>> /\ ~raised)
          /\ outcome'.op = "socket_recv"
          /\ socket_recv(length))
         => /\ outcome'.exc = "RuntimeError"
            /\ outcome'.msg = "Nothing sent yet. Can't receive!"]_vars

\* C10, amended: socket_recv raises exactly when no send was ever accepted; from
\* then on it returns the next bytes of the last response, no bytes once the
\* response was read to its end, in the scope of the send and in later ones.
C10_RecvRaisesOnlyBeforeFirstSend ==
    [][/\ accepted # <<>> => _last_response # NoneIO
       /\ \A length \in RecvLengths :
            (outcome'.op = "socket_recv" /\ socket_recv(length))
            => IF _last_response = NoneIO
               THEN /\ outcome'.exc = "RuntimeError"
                    /\ outcome'.msg = "Nothing sent yet. Can't receive!"
               ELSE /\ outcome'.exc = "none"
                    /\ Len(outcome'.ret) <= length
                    /\ _last_response.pos = Len(_last_response.buf)
                         => outcome'.ret = <<>>]_vars

\* In a scope in which nothing was sent yet, socket_recv returned no bytes from
\* the response of an earlier scope, read to its end
C10_Witness ==
    /\ in_scope
    /\ accepted = <<>>
    /\ ~raised
    /\ outcome.op = "socket_recv"
    /\ outcome.exc = "none"
    /\ outcome.ret = <<>>
    /\ _last_response.pos = Len(_last_response.buf)

\* C11: a socket_recv(length) on a buffered response returns at most `length` bytes
\* and consumes exactly the bytes it returns, so that the results of the calls, one
\* after the other, are the bytes of the frame; also when the body holds characters
\* outside ASCII.
C11_RecvAtMostLength ==
    [][\A length \in StoreLengths :
         (outcome'.op = "socket_recv" /\ _last_response # NoneIO /\ socket_recv(length))
         => /\ Len(outcome'.ret) <= length
            /\ Encode(TakeStr(_last_response.buf, _last_response.pos)) \o outcome'.ret
                 = Encode(TakeStr(_last_response'.buf, _last_response'.pos))]_vars

\* C12: the frame buffered for a response is "200" in a field of 3 characters, a
\* space, the length in a right-justified field of 11 characters, a newline and the
\* body, and the length is the number of bytes the body has on the wire.
C12_FrameLengthIsByteLength ==
    _last_response # NoneIO
    => LET buf == _last_response.buf
       IN  /\ Len(buf) >= 16
           /\ SubSeq(buf, 1, 4) = "200 "
           /\ SubSeq(buf, 5, 15) = PadLeft(IntRepr(Len(Encode(DropStr(buf, 16)))), 11)
           /\ Char(buf, 16) = NL

\* The rows of "GET hosts\nColumns: name" on the table `hosts` of the store
HostNames(tables) == [i \in 1..Len(tables.hosts) |-> <<tables.hosts[i].name>>]

C14_UnknownColumnRaises ==
    [][\A query \in UnknownColumnQueries :
         (outcome'.op = "expect_query" /\ expect_query(query, "loose"))
         => /\ outcome'.exc = "KeyError"
            /\ _expected_queries' = _expected_queries]_vars

\* The first line of the query starts with "GET "
NamesTable(query) == StartsWith(query, "GET ")

\* The query has a line that starts with "Columns:"
HasColumnsLine(query) ==
    \E i \in 1..Len(SplitLines(query)) : StartsWith(SplitLines(query)[i], "Columns:")

\* The entry queued last
LastExpected(queue) == queue[Len(queue)]

C17_StrictHeadMatchedIffEqual ==
    [][\A data \in MatchData :
         (/\ outcome'.op = "socket_send"
          /\ in_scope
          /\ _expected_queries # <<>>
          /\ _expected_queries[1].match_type = "strict"
          /\ socket_send(data))
         => IF QueryOf(data).val = _expected_queries[1].query
            THEN /\ outcome'.exc = "none"
                 /\ _expected_queries' = Tail(_expected_queries)
            ELSE /\ outcome'.exc = "RuntimeError"
                 /\ StartsWith(outcome'.msg, "Expected query (strict)")
                 /\ _expected_queries' = _expected_queries]_vars

\* The lines of a text, as a set
LineSet(text) == {SplitLines(text)[i] : i \in 1..Len(SplitLines(text))}

\* The lines of a text that are not "Cache: ..." headers
NonCacheLines(text) == {line \in LineSet(text) : ~StartsWith(line, "Cache: ")}

RECURSIVE EllipsisMatch(_, _)
EllipsisMatch(pattern, text) ==
    IF pattern = "" THEN text = ""
    ELSE IF StartsWith(pattern, "...")
    THEN \E k \in 0..Len(text) : EllipsisMatch(DropStr(pattern, 3), DropStr(text, k))
    ELSE /\ text # ""
         /\ Char(pattern, 1) = Char(text, 1)
         /\ EllipsisMatch(DropStr(pattern, 1), DropStr(text, 1))

\* C18: in ellipsis mode _compare returns True exactly when the string is the
\* pattern with each "..." replaced by some text, empty or over several lines, all
\* other characters of the pattern standing for themselves and the whole string
\* being covered.
C18_EllipsisIsWildcard ==
    (outcome.op = "_compare" /\ outcome.args[3] = "ellipsis")
    => /\ outcome.exc = "none"
       /\ outcome.ret = EllipsisMatch(outcome.args[1], outcome.args[2])

\* a is b without some of its elements, the others in their order
RECURSIVE IsSubsequence(_, _)
IsSubsequence(a, b) ==
    IF a = <<>> THEN TRUE
    ELSE IF b = <<>> THEN FALSE
    ELSE IF a[1] = b[1] THEN IsSubsequence(Tail(a), Tail(b))
    ELSE IsSubsequence(a, Tail(b))

\* The text has a line that starts with one of the prefixes
HasDirective(text, prefixes) ==
    \E line \in LineSet(text) : \E prefix \in prefixes : StartsWith(line, prefix)

\* The filter `filt` holds on the row
Holds(filt, row) == ApplyFilter(filt, row).val

C20_CombinatorTakesLastN ==
    LET lines == SplitLines(outcome.args[1])
        line == lines[Len(lines)]
        n == ParseInt(Split1(line, " ")[2]).val
        before == FilterLines(SubSeq(lines, 1, Len(lines) - 1), <<>>).val
        after == FilterLines(lines, <<>>)
        kept == IF n < Len(before) THEN Len(before) - n ELSE 0
        removed == SubSeq(before, kept + 1, Len(before))
    IN  (outcome.op = "evaluate_filter" /\ HasDirective(line, {"And:", "Or:"}))
        => /\ after.exc = "none"
           /\ Len(after.val) = kept + 1
           /\ SubSeq(after.val, 1, kept) = SubSeq(before, 1, kept)
           /\ \A row \in FilterRows :
                 Holds(after.val[kept + 1], row)
                   = IF StartsWith(line, "And:")
                     THEN \A i \in 1..Len(removed) : Holds(removed[i], row)
                     ELSE \E i \in 1..Len(removed) : Holds(removed[i], row)

\* The int a literal of the filters stands for; -1 for a literal that is none
LiteralInt(value) ==
    CASE value = "0" -> 0 [] value = "01" -> 1 [] value = "9" -> 9 [] OTHER -> 0 - 1

\* C21: the filter "Filter: c op v" on a row r compares r[c] with v coerced to the
\* type of r[c] (an int column reads v as an int, a str column takes v as it is):
\* "=" holds when they are equal, ">" when r[c] is greater, "<" when it is less,
\* ">=" when r[c] is less or equal, "<=" when r[c] is greater or equal.
C21_OperatorsCastLiteral ==
    outcome.op = "make_filter_func"
    => LET op == outcome.args[2]
           value == outcome.args[3]
           cell == outcome.args[4][outcome.args[1]]
           n == LiteralInt(value)
       IN  IF cell.t = "int"
           THEN IF n < 0 THEN outcome.exc = "ValueError"
                ELSE /\ outcome.exc = "none"
                     /\ outcome.ret = CASE op = "=" -> cell.i = n
                                        [] op = ">" -> cell.i > n
                                        [] op = "<" -> cell.i < n
                                        [] op = ">=" -> cell.i <= n
                                        [] op = "<=" -> cell.i >= n
           ELSE /\ outcome.exc = "none"
                /\ outcome.ret = CASE op = "=" -> cell.s = value
                                   [] op = ">" -> StrLess(value, cell.s)
                                   [] op = "<" -> StrLess(cell.s, value)
                                   [] op = ">=" -> ~StrLess(value, cell.s)
                                   [] op = "<=" -> ~StrLess(cell.s, value)

\* "Filter: state >= 9" held on a row whose state is 10 less than that, and
\* "Filter: state = 01" on a row whose state is 1
C21_Witness ==
    /\ outcome.op = "make_filter_func"
    /\ outcome.ret = TRUE
    /\ \/ /\ outcome.args[4].state = IntV(0)
          /\ <<outcome.args[1], outcome.args[2], outcome.args[3]>> = <<"state", ">=", "9">>
       \/ /\ outcome.args[4].state = IntV(1)
          /\ <<outcome.args[1], outcome.args[2], outcome.args[3]>> = <<"state", "=", "01">>

\* C22: a query on the stored table `hosts` declared without a Columns line is
\* queued with the columns of all rows of the table, each once and sorted, also when
\* the rows do not all have the same columns.
C22_ColumnsAreUnionOfRows ==
    [][(outcome'.op = "expect_query" /\ expect_query("GET hosts", "loose"))
       => /\ outcome'.exc = "none"
          /\ LastExpected(_expected_queries').columns
               = SortedStrs(UNION {DOMAIN _tables.hosts[i] : i \in 1..Len(_tables.hosts)})]_vars

\* C23: the response an accepted send buffers is one row of the column names of
\* the entry matched, exactly when the query sent has the line "ColumnHeaders: on"
\* (the declared text need not have it), and then the rows of the entry in their
\* order, each behind the site marker exactly when prepend_site is set at the send;
\* the row of the column names never has the marker.
C23_ResponseRows ==
    [][\A data \in TransportData :
         (outcome'.op = "socket_send" /\ outcome'.exc = "none" /\ socket_send(data))
         => LET head == _expected_queries[1]
                header == IF "ColumnHeaders: on" \in LineSet(QueryOf(data).val)
                          THEN <<[i \in 1..Len(head.columns) |-> StrV(head.columns[i])]>>
                          ELSE <<>>
                rows == [i \in 1..Len(head.result) |->
                           IF _prepend_site THEN <<StrV("NO_SITE")>> \o head.result[i]
                           ELSE head.result[i]]
            IN  _last_response' = StringIO(_make_livestatus_response(header \o rows))]_vars

\* The response to a query sent with "ColumnHeaders: on" and declared without it,
\* with prepend_site set: the column names, then the rows behind the marker
C23_Witness ==
    /\ outcome.op = "socket_send"
    /\ outcome.exc = "none"
    /\ _last_response # NoneIO
    /\ _last_response.buf =
         "200          60\n[['name'], ['NO_SITE', 'heute'], ['NO_SITE', 'example.com']]"

\* C24: a send that raises leaves the instance as it was: the queue with the same
\* entries in the same order, the response buffered and the position it was read
\* to, and the flag, the store and the switches.
C24_FailedSendChangesNothing ==
    [][(outcome'.op = "socket_send" /\ outcome'.exc # "none")
       => /\ _expected_queries' = _expected_queries
          /\ _last_response' = _last_response
          /\ UNCHANGED <<_prepend_site, _report_multiple, _expect_status_query, _tables>>]_vars

\* A send has raised the mismatch against a head that is still queued, the header
\* of the response before it read and the body not
C24_Witness ==
    /\ outcome.op = "socket_send"
    /\ outcome.exc = "RuntimeError"
    /\ StartsWith(outcome.msg, "Expected query (")
    /\ _expected_queries # <<>>
    /\ _last_response # NoneIO
    /\ _last_response.pos = 16

\* C25: a declaration that raises queues nothing and leaves the store as it was,
\* be it declared by expect_query at the end of the queue or by __enter__ at its
\* head.
C25_FailedDeclarationChangesNothing ==
    [][(outcome'.op \in {"expect_query", "__enter__"} /\ outcome'.exc # "none")
       => /\ _expected_queries' = _expected_queries
          /\ _tables' = _tables]_vars

\* A declaration has raised with a query already queued: expect_query, or __enter__
\* with its status query
C25_Witness ==
    /\ outcome.op \in {"expect_query", "__enter__"}
    /\ outcome.exc \in {"ValueError", "KeyError"}
    /\ _expected_queries # <<>>

\* C26: an accepted send leaves one whole frame buffered and nothing of it read,
\* whatever was left unread of the response before; and a socket_recv returns the
\* bytes of the characters that follow those read so far, so the receives after a
\* send deliver the new frame from its first byte.
C26_SendReplacesResponse ==
    [][/\ (outcome'.op = "socket_send" /\ outcome'.exc = "none")
          => /\ _last_response' # NoneIO
             /\ _last_response'.pos = 0
             /\ _last_response'.buf = Framed(DropStr(_last_response'.buf, 16))
       /\ \A length \in RecvLengths :
            (outcome'.op = "socket_recv" /\ outcome'.exc = "none" /\ socket_recv(length))
            => /\ _last_response'.buf = _last_response.buf
               /\ _last_response'.pos <= _last_response.pos + length
               /\ \/ _last_response'.pos = _last_response.pos + length
                  \/ _last_response'.pos = Len(_last_response.buf)
               /\ outcome'.ret = Encode(SubSeq(_last_response.buf, _last_response.pos + 1,
                                               _last_response'.pos))]_vars

\* The second send of a scope was accepted, and the receive after it has returned
\* the header of its frame, which is not that of the frame of the first send
C26_Witness ==
    /\ Len(accepted) = 2
    /\ accepted[1][2] = HostsByName
    /\ outcome.op = "socket_recv"
    /\ outcome.ret = Encode("200          38\n")
    /\ _last_response.pos = 16

=============================================================================
